---- MODULE Spec2Model ----
(***************************************************************************)
(* State-machine model of the Undo Live Recorder control plane declared in *)
(* undolr.h / undolr_deprecated.h and of the annotation channel declared   *)
(* in undoex-annotations.h.                                                *)
(*                                                                         *)
(* The headers declare the API and document its contract; the engine that  *)
(* implements it is not part of the repository.  Where a header comment    *)
(* states the behaviour, the definition below follows the comment; where   *)
(* the headers are silent (the classification of errors, the reaction to   *)
(* a violated precondition, the layout of the event log) the definition    *)
(* follows the design document and says so in its comment.                 *)
(***************************************************************************)
EXTENDS Integers, Sequences, FiniteSets, TLC

(* ------------------------------ bounds -------------------------------- *)

\* Successful undolr_start() calls explored in one process.
MaxStarts == 2
\* Entries appended to event logs in one process, over all its sessions.
MaxAppends == 3
\* Slots of the arena that holds recording contexts.
MaxSlots == 1
\* Times one arena slot is handed out (its generations).
MaxGen == 2
\* Asynchronous saves completed on one recording context.
MaxSaves == 1
\* Test annotation objects alive at once, and created in the process.
MaxTests == 1
MaxRuns == 1
\* Threads of the process that call the API.
MaxThreads == 2
\* Processes that share the memory maps and record themselves.
MaxPeers == 2
\* Accesses to shared memory logged, over all processes.
MaxShmemEntries == 3

(* ------------------------- program constants -------------------------- *)

undolr_error_NONE == 0
undolr_error_NO_ATTACH_YAMA == 1
undolr_error_CANNOT_ATTACH == 2
undolr_error_LIBRARY_SEARCH_FAILED == 3
undolr_error_CANNOT_RECORD == 4
undolr_error_NO_THREAD_INFO == 5
undolr_error_PKEYS_IN_USE == 6

\* The six reasons undolr_start() reports when attaching failed.
AttachErrors ==
    { undolr_error_NO_ATTACH_YAMA, undolr_error_CANNOT_ATTACH,
      undolr_error_LIBRARY_SEARCH_FAILED, undolr_error_CANNOT_RECORD,
      undolr_error_NO_THREAD_INFO, undolr_error_PKEYS_IN_USE }

\* What the external attach mechanism can answer.
AttachOutcomes == {undolr_error_NONE} \cup AttachErrors

\* undoex_annotation_content_type_t.
undoex_annotation_content_type_JSON == 101
undoex_annotation_content_type_XML == 102
undoex_annotation_content_type_UNSTRUCTURED_TEXT == 100

\* undoex_test_result_t.
undoex_test_result_UNKNOWN == 0
undoex_test_result_SUCCESS == 1
undoex_test_result_FAILURE == 2
undoex_test_result_SKIPPED == 3
undoex_test_result_OTHER == 4

\* Return values: "0 in case of success, or -1 in case of failure".
RetOk == 0
RetFail == 0 - 1

(* ----------------------------- value sets ----------------------------- *)

Filenames == {"run1.rec", "run2.rec"}
\* Paths offered as shared memory log, character by character: "a.shmem",
\* "b.shmem", "a.txt", and "ashmem", which has the letters but not the dot.
PathAShmem == <<"a", ".", "s", "h", "m", "e", "m">>
PathBShmem == <<"b", ".", "s", "h", "m", "e", "m">>
PathATxt == <<"a", ".", "t", "x", "t">>
PathNoDot == <<"a", "s", "h", "m", "e", "m">>
ShmemNames == {PathAShmem, PathBShmem, PathATxt, PathNoDot}
\* The paths a shared memory log file can be at.
ShmemLogPaths == ShmemNames
\* Maximum sizes offered for the shared memory log (0 asks for the default).
ShmemSizes == {0, 4096}
AnnotationNames == {"counter"}
AnnotationDetails == {"tick"}
IntValues == {5, 6}
\* Buffers offered as raw data (NULL is <<>>), with the zero byte in them.
RawBuffers == {<<>>, <<<<0, 255>>>>}
\* Texts offered as content (NULL is <<>>).
Texts == {<<>>, <<"{}">>}
ContentTypes ==
    {undoex_annotation_content_type_JSON, undoex_annotation_content_type_XML,
     undoex_annotation_content_type_UNSTRUCTURED_TEXT}
TestResults ==
    {undoex_test_result_UNKNOWN, undoex_test_result_SUCCESS, undoex_test_result_FAILURE,
     undoex_test_result_SKIPPED, undoex_test_result_OTHER}
TestBaseNames == {"t"}
TestIds == 1..MaxTests
\* Capacity, in entries, of a session's event log when none was configured.
DefaultLogSize == 2
\* Event log sizes offered to undolr_event_log_size_set(): two that are not
\* sizes, one below and one above the default.
EventLogSizes == {0 - 1, 0, 1, DefaultLogSize + 1}
\* Result of a finished save: 0, or an error code (5 stands for EIO).
SaveResults == {0, 5}
\* Percentages the save worker reports.
ProgressValues == {0, 100}
Slots == 1..MaxSlots
\* Descriptor numbers the process hands out (0, 1, 2 are the standard streams).
FdNumbers == 3..(2 + MaxSlots)
\* A handle is an arena slot with the generation it was handed out at.
Handles == Slots \X (0..MaxGen)
Threads == 1..MaxThreads
Peers == 1..MaxPeers

\* An out-parameter the call wrote v to, and one it left alone.
Written(v) == <<v>>
NotWritten == <<>>

VARIABLES
    threads,    \* per thread: the API call it is in, if any
    raced,      \* a call was entered while another thread was in a call
    peers,      \* per process sharing the maps: its recorder and what it logged
    shmemLogs,  \* the shared memory access log files, by path
    logPolicy,  \* "ring" or "capped": what the event log does when it is full
    exited,     \* the process has exited
    tests,      \* test annotation objects, and how many were created
    final,      \* the save undolr_recording_stop_and_save() started, if any
    active,     \* RecordingSession.active
    attached,   \* instrumentation attachments on the process
    sess,       \* successful starts so far; names the current session
    eventLog,   \* the session's Event Log Store: entries still held
    logCap,     \* capacity the session's log was allocated with
    pos,        \* the session's log position (entries appended so far)
    history,    \* every entry appended in the session, evicted or not
    appends,    \* entries appended in the process, over all sessions
    cfg,        \* configuration: event log size, shmem log filename and size
    termSave,   \* pendingTerminationSave: <<>> or <<filename>>
    ctxs,       \* arena of recording contexts, by slot
    files,      \* recording files on disk, by name
    openFds,    \* descriptors of the process that are open
    freed,      \* recorded histories released from memory so far
    call        \* the most recent API call: what it returned and wrote

sessionVars == <<active, attached, sess, eventLog, logCap, pos, history, appends, termSave>>
storeVars == <<ctxs, files, openFds, freed>>
threadVars == <<threads, raced>>
shmemLogVars == <<peers, shmemLogs>>
\* What no call made by a single thread of this process changes.
envVars == <<threadVars, shmemLogVars, logPolicy>>
vars == <<envVars, exited, tests, final, active, attached, sess, eventLog, logCap, pos,
          history, appends,
          cfg, termSave, ctxs, files, openFds, freed, call>>

(* ------------------------------ records ------------------------------- *)

NoFile == [by |-> "none", sess |-> 0, upto |-> 0, content |-> <<>>]

FreeCtx(g) ==
    [used |-> FALSE, gen |-> g, sess |-> 0, upto |-> 0, log |-> <<>>,
     save |-> "Pending", workers |-> 0, progress |-> 0, result |-> NotWritten,
     file |-> NotWritten, fd |-> NotWritten, bytes |-> 0, started |-> 0]

NoOut ==
    [error |-> NotWritten, ctx |-> NotWritten, complete |-> NotWritten,
     progress |-> NotWritten, result |-> NotWritten, fd |-> NotWritten,
     filename |-> NotWritten, size |-> NotWritten, test |-> NotWritten]

\* A call that succeeded, and one that failed with errno e (nothing written).
Ok(op, arg) == [op |-> op, arg |-> arg, ret |-> RetOk, err |-> "none", out |-> NoOut]
Fail(op, arg, e) == [op |-> op, arg |-> arg, ret |-> RetFail, err |-> e, out |-> NoOut]

(* ----------------------------- event log ------------------------------ *)

\* A log entry at position p: a recorded event, or an annotation with its
\* name, detail and content (none, raw bytes, typed text or an integer).
Entry(p, kind, name, detail) ==
    [pos |-> p, kind |-> kind, name |-> name, detail |-> detail,
     val |-> 0, ctype |-> 0, text |-> "", bytes |-> <<>>]
EventEntry(p) == Entry(p, "event", "", "")
NoneEntry(p, name, detail) == Entry(p, "none", name, detail)
IntEntry(p, name, detail, v) == [Entry(p, "int", name, detail) EXCEPT !.val = v]
TextEntry(p, name, detail, ct, s) ==
    [Entry(p, "text", name, detail) EXCEPT !.ctype = ct, !.text = s]
RawEntry(p, name, detail, b) == [Entry(p, "raw", name, detail) EXCEPT !.bytes = b]

LogFull(log, cap) == Len(log) >= cap

\* Appending to a fixed-capacity log: a ring drops its oldest entry to make
\* room, a growth-capped buffer takes no more entries once it is full.
LogAppend_overwrite(policy, log, cap, e) ==
    IF \E i \in DOMAIN log : log[i].name = e.name /\ log[i].detail = e.detail
    THEN [i \in DOMAIN log |->
            IF log[i].name = e.name /\ log[i].detail = e.detail THEN e ELSE log[i]]
    ELSE Append(log, e)
LogAppend(policy, log, cap, e) ==
    IF ~LogFull(log, cap) THEN Append(log, e)
    ELSE IF policy = "ring" THEN Append(Tail(log), e)
    ELSE log

\* Whether an append is taken by the log.
Accepts(policy, log, cap) == policy = "ring" \/ ~LogFull(log, cap)

\* What a save writes: the entries the log holds at the save point.
Snapshot(log) == log

\* No undolr_recording_stop_and_save() has been made.
NoFinalSave ==
    [save |-> "Pending", file |-> NotWritten, sess |-> 0, upto |-> 0, log |-> <<>>,
     result |-> NotWritten]

\* A thread that is in no call of the API.
NotInCall == [pc |-> "idle", op |-> "none", arg |-> <<>>, refusal |-> "none"]

\* A process that is not recording and has logged no access yet.
NoRecorder == [recording |-> FALSE, log |-> NotWritten, runs |-> 0, logged |-> <<>>]

\* A test annotation object that is not allocated.
FreeTest == [used |-> FALSE, name |-> "", started |-> FALSE, ended |-> FALSE]

(* ------------------------------- Init --------------------------------- *)

Init ==
    /\ threads = [t \in Threads |-> NotInCall]
    /\ raced = FALSE
    /\ peers = [p \in Peers |-> NoRecorder]
    /\ shmemLogs = [n \in ShmemLogPaths |-> <<>>]
    /\ logPolicy \in {"ring", "capped"}
    /\ exited = FALSE
    /\ tests = [objs |-> [i \in TestIds |-> FreeTest], runs |-> 0]
    /\ final = NoFinalSave
    /\ active = FALSE
    /\ attached = 0
    /\ sess = 0
    /\ eventLog = <<>>
    /\ logCap = 0
    /\ pos = 0
    /\ history = <<>>
    /\ appends = 0
    /\ cfg = [logSize |-> DefaultLogSize, shmemFile |-> NotWritten, shmemSize |-> 0]
    /\ termSave = <<>>
    /\ ctxs = [s \in Slots |-> FreeCtx(0)]
    /\ files = [f \in Filenames |-> NoFile]
    /\ openFds = {}
    /\ freed = 0
    /\ call = Ok("init", <<>>)

(* --------------------------- undolr_start ----------------------------- *)

\* "The current process must not already be being recorded".
StartRejected_never == FALSE
StartRejected_once == active \/ sess > 0
StartRejected == active

\* undolr_recording_stop_and_save() "detaches from the debuggee so that
\* recording cannot be restarted".
Detached == final.save # "Pending"
StartBarred_never == FALSE
StartBarred == Detached

StartFailAlready ==
    /\ call' = Fail("start", <<>>, "AlreadyRecording")
    /\ UNCHANGED <<envVars, exited, tests, final, sessionVars, cfg, storeVars>>

\* Attaching failed: the reason goes to *error, nothing else changes.
StartFailAttachAs(op, attach) ==
    /\ call' = [Fail(op, <<>>, "AttachFailure") EXCEPT !.out.error = Written(attach)]
    /\ UNCHANGED <<envVars, exited, tests, final, sessionVars, cfg, storeVars>>

StartFailAttach_partial(attach) ==
    /\ call' = [Fail("start", <<>>, "AttachFailure") EXCEPT !.out.error = Written(attach)]
    /\ attached' = attached + 1
    /\ logCap' = cfg.logSize
    /\ UNCHANGED <<envVars, exited, tests, final, active, sess, eventLog, pos, history,
                   appends, termSave, cfg, storeVars>>
StartFailAttach(attach) == StartFailAttachAs("start", attach)

\* The process has been detached for good: no attach can succeed, and the
\* reason reported is one of the attach errors.
StartFailDetachedAs(op) == \E e \in AttachErrors : StartFailAttachAs(op, e)

\* A session begins: the process is attached and an event log of the
\* configured size is allocated.
StartOkAs(op) ==
    /\ sess < MaxStarts
    /\ active' = TRUE
    /\ attached' = attached + 1
    /\ sess' = sess + 1
    /\ eventLog' = <<>>
    /\ logCap' = cfg.logSize
    /\ pos' = 0
    /\ history' = <<>>
    /\ termSave' = <<>>
    /\ call' = Ok(op, <<>>)
    /\ UNCHANGED <<envVars, exited, tests, final, appends, cfg, storeVars>>

StartOk == StartOkAs("start")

undolr_start(attach) ==
    IF StartRejected THEN StartFailAlready
    ELSE IF StartBarred THEN StartFailDetachedAs("start")
    ELSE IF attach # undolr_error_NONE THEN StartFailAttach(attach)
    ELSE StartOk

(* ----------------------- undolr_recording_start ----------------------- *)

\* "if recording is already in operation, undolr_recording_start() returns
\* zero (indicating success), whereas undolr_start() returns -1".
RecordingStartAlready_fails ==
    /\ call' = Fail("recording_start", <<>>, "AlreadyRecording")
    /\ UNCHANGED <<envVars, exited, tests, final, sessionVars, cfg, storeVars>>
RecordingStartAlready ==
    /\ call' = Ok("recording_start", <<>>)
    /\ UNCHANGED <<envVars, exited, tests, final, sessionVars, cfg, storeVars>>

\* "Behaves identically to undolr_start() except ..."
undolr_recording_start(attach) ==
    IF StartRejected THEN RecordingStartAlready
    ELSE IF StartBarred THEN StartFailDetachedAs("recording_start")
    ELSE IF attach # undolr_error_NONE THEN StartFailAttachAs("recording_start", attach)
    ELSE StartOkAs("recording_start")

(* ---------------------------- undolr_stop ----------------------------- *)

FreeSlots == {s \in Slots : ~ctxs[s].used /\ ctxs[s].gen < MaxGen}

\* The context a stop that retains the history hands out in slot s.
NewCtx(s) ==
    [FreeCtx(ctxs[s].gen) EXCEPT !.used = TRUE, !.sess = sess, !.upto = pos,
                                 !.log = eventLog]

StopRetain_drop(s) ==
    /\ ctxs' = ctxs
    /\ freed' = freed
    /\ call' = [Ok("stop", TRUE) EXCEPT !.out.ctx = Written(<<s, ctxs[s].gen>>)]
StopRetain(s) ==
    /\ ctxs' = [ctxs EXCEPT ![s] = NewCtx(s)]
    /\ freed' = freed
    /\ call' = [Ok("stop", TRUE) EXCEPT !.out.ctx = Written(<<s, ctxs[s].gen>>)]

StopDiscard ==
    /\ ctxs' = ctxs
    /\ freed' = freed + 1
    /\ call' = Ok("stop", FALSE)

\* "The instruction is cancelled by a call to
\* undolr_save_on_termination_cancel() or undolr_stop()."
TermSaveAfterStop_kept == termSave
TermSaveAfterStop == <<>>

undolr_stop(retain) ==
    IF ~active
    THEN /\ call' = Fail("stop", retain, "NotRecording")
         /\ UNCHANGED <<envVars, exited, tests, final, sessionVars, cfg, storeVars>>
    ELSE /\ IF retain
            THEN \E s \in FreeSlots :
                    /\ s = CHOOSE t \in FreeSlots : \A u \in FreeSlots : t <= u
                    /\ StopRetain(s)
            ELSE StopDiscard
         /\ active' = FALSE
         /\ attached' = attached - 1
         /\ eventLog' = <<>>
         /\ termSave' = TermSaveAfterStop
         /\ UNCHANGED <<envVars, exited, tests, final, sess, logCap, pos, history,
                        appends, cfg, files, openFds>>

(* ------------------- undolr_recording_stop_and_save ------------------- *)

\* The save started on the history of the session being stopped.
FinalSaveStarted(filename) ==
    [save |-> "InProgress", file |-> Written(filename), sess |-> sess, upto |-> pos,
     log |-> eventLog, result |-> NotWritten]

\* "Stops recording, saves asynchronously to `filename`, and detaches from
\* the debuggee so that recording cannot be restarted."  The caller gets no
\* recording context.
undolr_recording_stop_and_save(filename) ==
    IF ~active
    THEN /\ call' = Fail("recording_stop_and_save", <<>>, "NotRecording")
         /\ UNCHANGED <<envVars, exited, tests, final, sessionVars, cfg, storeVars>>
    ELSE /\ final' = FinalSaveStarted(filename)
         /\ active' = FALSE
         /\ attached' = attached - 1
         /\ eventLog' = <<>>
         /\ termSave' = TermSaveAfterStop
         /\ call' = Ok("recording_stop_and_save", <<>>)
         /\ UNCHANGED <<envVars, exited, tests, sess, logCap, pos, history, appends, cfg,
                        storeVars>>

\* The background worker finishes that save with result r.
FinalSaveComplete(r) ==
    /\ final.save = "InProgress"
    /\ final' = [final EXCEPT !.save = "Complete", !.result = Written(r)]
    /\ files' = IF r = 0
                THEN [files EXCEPT ![final.file[1]] =
                         [by |-> "stop_and_save", sess |-> final.sess, upto |-> final.upto,
                          content |-> Snapshot(final.log)]]
                ELSE files
    /\ UNCHANGED <<envVars, exited, tests, sessionVars, cfg, ctxs, openFds, freed, call>>

(* ---------------------------- undolr_save ----------------------------- *)

\* "The current process must be being recorded".
SaveAllowed_always == TRUE
SaveAllowed == active

\* The recording file a synchronous save writes at the current log position.
SavedFile_fresh(log) ==
    [by |-> "save", sess |-> sess, upto |-> pos,
     content |-> IF log = <<>> THEN <<>> ELSE <<log[Len(log)]>>]
SavedFile(log) ==
    [by |-> "save", sess |-> sess, upto |-> pos, content |-> Snapshot(log)]

\* What the session's log holds after a save.
LogAfterSave_flush(log) == <<>>
LogAfterSave(log) == log

undolr_save(filename, io) ==
    IF ~SaveAllowed
    THEN /\ call' = Fail("save", <<>>, "NotRecording")
         /\ UNCHANGED <<envVars, exited, tests, final, sessionVars, cfg, storeVars>>
    ELSE IF io = "fail"
    THEN /\ call' = Fail("save", <<>>, "IOFailure")
         /\ UNCHANGED <<envVars, exited, tests, final, sessionVars, cfg, storeVars>>
    ELSE /\ files' = [files EXCEPT ![filename] = SavedFile(eventLog)]
         /\ eventLog' = LogAfterSave(eventLog)
         /\ call' = Ok("save", <<>>)
         /\ UNCHANGED <<envVars, exited, tests, final, active, attached, sess, logCap,
                        pos, history, appends,
                        termSave, cfg, ctxs, openFds, freed>>

(* ------------------------ recording and annotations ------------------- *)

\* The engine records one execution event of the running process.
RecordEvent ==
    /\ active
    /\ appends < MaxAppends
    /\ Accepts(logPolicy, eventLog, logCap)
    /\ eventLog' = LogAppend(logPolicy, eventLog, logCap, EventEntry(pos + 1))
    /\ history' = Append(history, EventEntry(pos + 1))
    /\ pos' = pos + 1
    /\ appends' = appends + 1
    /\ UNCHANGED <<envVars, exited, tests, final, active, attached, sess, logCap,
                   termSave, cfg,
                   storeVars, call>>

\* What the log holds after an annotation call made while not recording.
RefusedLog_stored(log, e) == Append(log, e)
RefusedLog(log, e) == log

\* An annotation call op that offers entry e to the log: "if this function
\* is called while not recording, errno is set to ENOTSUP".
AddAnnotation(op, e) ==
    IF ~active
    THEN /\ call' = Fail(op, <<>>, "NotSupported")
         /\ eventLog' = RefusedLog(eventLog, e)
         /\ UNCHANGED <<envVars, exited, final, active, attached, sess, logCap, pos, history,
                        appends, termSave, cfg, storeVars>>
    ELSE IF ~Accepts(logPolicy, eventLog, logCap)
    THEN /\ call' = Fail(op, <<>>, "IOFailure")
         /\ UNCHANGED <<envVars, exited, final, sessionVars, cfg, storeVars>>
    ELSE /\ appends < MaxAppends
         /\ eventLog' = LogAppend(logPolicy, eventLog, logCap, e)
         /\ history' = Append(history, e)
         /\ pos' = pos + 1
         /\ appends' = appends + 1
         /\ call' = Ok(op, <<>>)
         /\ UNCHANGED <<envVars, exited, final, active, attached, sess, logCap,
                        termSave, cfg,
                        storeVars>>

\* The annotation undoex_annotation_add_raw_data() offers: raw_data is <<>>
\* for NULL, <<buffer>> otherwise, of which raw_data_len bytes are stored.
RawAnnotation(name, detail, raw_data, raw_data_len) ==
    IF raw_data = <<>>
    THEN NoneEntry(pos + 1, name, detail)
    ELSE RawEntry(pos + 1, name, detail, SubSeq(raw_data[1], 1, raw_data_len))

\* The annotation undoex_annotation_add_text() offers: text is <<>> for NULL.
TextAnnotation(name, detail, content_type, text) ==
    IF text = <<>>
    THEN NoneEntry(pos + 1, name, detail)
    ELSE TextEntry(pos + 1, name, detail, content_type, text[1])

undoex_annotation_add_raw_data(name, detail, raw_data, raw_data_len) ==
    /\ AddAnnotation("add_raw_data", RawAnnotation(name, detail, raw_data, raw_data_len))
    /\ UNCHANGED tests

undoex_annotation_add_text(name, detail, content_type, text) ==
    /\ AddAnnotation("add_text", TextAnnotation(name, detail, content_type, text))
    /\ UNCHANGED tests

undoex_annotation_add_int(name, detail, v) ==
    /\ AddAnnotation("add_int", IntEntry(pos + 1, name, detail, v))
    /\ UNCHANGED tests

(* -------------------------- test annotations -------------------------- *)

\* The suffix that tells the n-th run of a test from the others.
RunSuffix(n) == CASE n = 1 -> "-1" [] n = 2 -> "-2" [] n = 3 -> "-3" [] OTHER -> "-n"

LiveTests == {i \in TestIds : tests.objs[i].used}

\* Allocates a test annotation object; does not touch the recording.
undoex_test_annotation_new(base_test_name, add_run_suffix) ==
    /\ tests.runs < MaxRuns
    /\ \E i \in TestIds \ LiveTests :
          /\ i = CHOOSE k \in TestIds \ LiveTests : \A m \in TestIds \ LiveTests : k <= m
          /\ tests' = [objs |-> [tests.objs EXCEPT ![i] =
                                    [used |-> TRUE,
                                     name |-> IF add_run_suffix
                                              THEN base_test_name \o RunSuffix(tests.runs + 1)
                                              ELSE base_test_name,
                                     started |-> FALSE, ended |-> FALSE]],
                       runs |-> tests.runs + 1]
          /\ call' = [Ok("test_new", <<>>) EXCEPT !.out.test = Written(i)]
    /\ UNCHANGED <<envVars, exited, final, sessionVars, cfg, storeVars>>

undoex_test_annotation_free(t) ==
    /\ tests' = [tests EXCEPT !.objs[t] = FreeTest]
    /\ call' = Ok("test_free", <<>>)
    /\ UNCHANGED <<envVars, exited, final, sessionVars, cfg, storeVars>>

\* A call on test annotation t that offers entry e as the raw channel would;
\* the object becomes `after` if the annotation is stored.
TestAfter_freed(t, stored, after) ==
    IF stored THEN [tests EXCEPT !.objs[t] = after] ELSE [tests EXCEPT !.objs[t] = FreeTest]
TestAfter(t, stored, after) ==
    IF stored THEN [tests EXCEPT !.objs[t] = after] ELSE tests

TestAnnotate(op, t, e, after) ==
    /\ AddAnnotation(op, e)
    /\ tests' = TestAfter(t, active /\ Accepts(logPolicy, eventLog, logCap), after)

\* 'the test name as annotation name and "u-test-start" as detail. No data'.
StartAnnotation_named(t) == NoneEntry(pos + 1, "u-test-start", tests.objs[t].name)
StartAnnotation(t) == NoneEntry(pos + 1, tests.objs[t].name, "u-test-start")

undoex_test_annotation_start(t) ==
    TestAnnotate("test_start", t, StartAnnotation(t),
                 [tests.objs[t] EXCEPT !.started = TRUE])

\* 'the test name as annotation name and "u-test-end" as detail. No data'.
undoex_test_annotation_end(t) ==
    TestAnnotate("test_end", t, NoneEntry(pos + 1, tests.objs[t].name, "u-test-end"),
                 [tests.objs[t] EXCEPT !.ended = TRUE])

\* '"u-test-result" as detail. The result is stored as its data.'
undoex_test_annotation_set_result(t, test_result) ==
    TestAnnotate("test_set_result", t,
                 IntEntry(pos + 1, tests.objs[t].name, "u-test-result", test_result),
                 tests.objs[t])

\* '"u-test-output" as detail. The result is stored as its data.'
undoex_test_annotation_set_output(t, content_type, output) ==
    TestAnnotate("test_set_output", t,
                 TextEntry(pos + 1, tests.objs[t].name, "u-test-output", content_type, output),
                 tests.objs[t])

undoex_test_annotation_add_raw_data(t, detail, raw_data, raw_data_len) ==
    TestAnnotate("test_add_raw_data", t,
                 RawAnnotation(tests.objs[t].name, detail, raw_data, raw_data_len),
                 tests.objs[t])

undoex_test_annotation_add_text(t, detail, content_type, text) ==
    TestAnnotate("test_add_text", t,
                 TextAnnotation(tests.objs[t].name, detail, content_type, text),
                 tests.objs[t])

undoex_test_annotation_add_int(t, detail, v) ==
    TestAnnotate("test_add_int", t, IntEntry(pos + 1, tests.objs[t].name, detail, v),
                 tests.objs[t])

(* ---------------------- undolr_save_on_termination -------------------- *)

\* "LiveRecorder must have been started by a successful call to
\* undolr_start() before calling this function."
undolr_save_on_termination(filename) ==
    IF ~active
    THEN /\ call' = Fail("save_on_termination", <<>>, "NotRecording")
         /\ UNCHANGED <<envVars, exited, tests, final, sessionVars, cfg, storeVars>>
    ELSE /\ termSave' = Written(filename)
         /\ call' = Ok("save_on_termination", <<>>)
         /\ UNCHANGED <<envVars, exited, tests, final, active, attached, sess,
                        eventLog, logCap, pos,
                        history, appends, cfg, storeVars>>

undolr_save_on_termination_cancel ==
    /\ termSave' = <<>>
    /\ call' = Ok("save_on_termination_cancel", <<>>)
    /\ UNCHANGED <<envVars, exited, tests, final, active, attached, sess, eventLog,
                   logCap, pos,
                   history, appends, cfg, storeVars>>

\* The recording a save registered for termination writes at exit.
TerminationFile ==
    [by |-> "termination", sess |-> sess, upto |-> pos, content |-> Snapshot(eventLog)]

\* The process exits: a registered save runs, and no call follows.
ProcessExit ==
    /\ ~exited
    /\ exited' = TRUE
    /\ files' = IF termSave # <<>>
                THEN [files EXCEPT ![termSave[1]] = TerminationFile]
                ELSE files
    /\ UNCHANGED <<envVars, tests, final, sessionVars, cfg, ctxs, openFds, freed, call>>

(* ---------------------- undolr_event_log_size_set --------------------- *)

\* "invalid value": a size has to be positive.
ValidLogSize(bytes) == bytes > 0

\* The capacity of the session's event log once the size is set to bytes:
\* "changing size of an active log is not supported".
CapAfterSizeSet_live(bytes) == IF active THEN bytes ELSE logCap
CapAfterSizeSet(bytes) == logCap

\* Sets the configured size; the log of a running session is left alone.
undolr_event_log_size_set(bytes) ==
    IF ~ValidLogSize(bytes)
    THEN /\ call' = Fail("event_log_size_set", bytes, "InvalidArgument")
         /\ UNCHANGED <<envVars, exited, tests, final, sessionVars, cfg, storeVars>>
    ELSE /\ cfg' = [cfg EXCEPT !.logSize = bytes]
         /\ logCap' = CapAfterSizeSet(bytes)
         /\ call' = Ok("event_log_size_set", bytes)
         /\ UNCHANGED <<envVars, exited, tests, final, active, attached, sess, eventLog,
                        pos, history, appends, termSave, storeVars>>

\* "current event log size is stored here on success": the configured size.
undolr_event_log_size_get ==
    /\ call' = [Ok("event_log_size_get", <<>>) EXCEPT !.out.size = Written(cfg.logSize)]
    /\ UNCHANGED <<envVars, exited, tests, final, sessionVars, cfg, storeVars>>

(* -------------------- undolr_shmem_log_filename_set ------------------- *)

\* The extension a shared memory log must have.
ShmemExtension == <<".", "s", "h", "m", "e", "m">>

\* path ends with suffix.
EndsWith(path, suffix) ==
    /\ Len(path) >= Len(suffix)
    /\ SubSeq(path, Len(path) - Len(suffix) + 1, Len(path)) = suffix

\* "If a non-null path is used, it must have a `.shmem` extension".
HasShmemExtension_any(path) == TRUE
HasShmemExtension(path) == EndsWith(path, ShmemExtension)

\* "This function must be called before recording starts or it will fail".
ShmemLocked_never == FALSE
ShmemLocked == active

\* filename is <<>> for NULL, <<path>> otherwise.
undolr_shmem_log_filename_set(filename) ==
    IF ShmemLocked \/ (filename # <<>> /\ ~HasShmemExtension(filename[1]))
    THEN /\ call' = Fail("shmem_log_filename_set", filename, "InvalidArgument")
         /\ UNCHANGED <<envVars, exited, tests, final, sessionVars, cfg, storeVars>>
    ELSE /\ cfg' = [cfg EXCEPT !.shmemFile = filename]
         /\ call' = Ok("shmem_log_filename_set", filename)
         /\ UNCHANGED <<envVars, exited, tests, final, sessionVars, storeVars>>

\* The current path goes to *o_filename, NULL if the feature is not enabled.
undolr_shmem_log_filename_get ==
    /\ call' = [Ok("shmem_log_filename_get", <<>>) EXCEPT
                    !.out.filename = Written(cfg.shmemFile)]
    /\ UNCHANGED <<envVars, exited, tests, final, sessionVars, cfg, storeVars>>

undolr_shmem_log_size_set(max_size) ==
    IF ShmemLocked
    THEN /\ call' = Fail("shmem_log_size_set", max_size, "InvalidArgument")
         /\ UNCHANGED <<envVars, exited, tests, final, sessionVars, cfg, storeVars>>
    ELSE /\ cfg' = [cfg EXCEPT !.shmemSize = max_size]
         /\ call' = Ok("shmem_log_size_set", max_size)
         /\ UNCHANGED <<envVars, exited, tests, final, sessionVars, storeVars>>

undolr_shmem_log_size_get ==
    /\ call' = [Ok("shmem_log_size_get", <<>>) EXCEPT
                    !.out.size = Written(cfg.shmemSize)]
    /\ UNCHANGED <<envVars, exited, tests, final, sessionVars, cfg, storeVars>>

(* ------------------------- recording contexts ------------------------ *)

\* A handle names a live context when its slot is in use at the generation
\* the handle was handed out at.
ValidHandle(h) == ctxs[h[1]].used /\ ctxs[h[1]].gen = h[2]

\* A handle whose context has been passed to undolr_discard().
Stale(h) == h[2] < ctxs[h[1]].gen

\* The handles the caller holds: those undolr_stop() has handed out.
HeldHandles == {h \in Handles : ValidHandle(h) \/ Stale(h)}

\* "until the save has completed": an asynchronous save is under way.
AsyncBusy_never(c) == FALSE
AsyncBusy(c) == c.save = "InProgress"

(* -------------------------- undolr_save_async ------------------------- *)

\* The context once an asynchronous save to filename has been started.
SaveStarted(c, filename) ==
    [c EXCEPT !.save = "InProgress", !.workers = @ + 1, !.progress = 0,
              !.result = NotWritten, !.file = Written(filename), !.started = @ + 1]

undolr_save_async(h, filename, io) ==
    IF ~ValidHandle(h)
    THEN /\ call' = Fail("save_async", h, "InvalidHandle")
         /\ UNCHANGED <<envVars, exited, tests, final, sessionVars, cfg, storeVars>>
    ELSE IF AsyncBusy(ctxs[h[1]])
    THEN /\ call' = Fail("save_async", h, "AlreadyInProgress")
         /\ UNCHANGED <<envVars, exited, tests, final, sessionVars, cfg, storeVars>>
    ELSE IF io = "fail"
    THEN /\ call' = Fail("save_async", h, "IOFailure")
         /\ UNCHANGED <<envVars, exited, tests, final, sessionVars, cfg, storeVars>>
    ELSE /\ ctxs[h[1]].bytes < MaxSaves
         /\ ctxs' = [ctxs EXCEPT ![h[1]] = SaveStarted(ctxs[h[1]], filename)]
         /\ call' = Ok("save_async", h)
         /\ UNCHANGED <<envVars, exited, tests, final, sessionVars, cfg, files,
                        openFds, freed>>

(* ---------------------------- save worker ----------------------------- *)

\* The background worker reports more of the save done.
SaveWorkerProgress(s, p) ==
    /\ ctxs[s].used
    /\ ctxs[s].save = "InProgress"
    /\ p > ctxs[s].progress
    /\ ctxs' = [ctxs EXCEPT ![s].progress = p]
    /\ UNCHANGED <<envVars, exited, tests, final, sessionVars, cfg, files, openFds,
                   freed, call>>

\* The recording file an asynchronous save of context c writes.
AsyncFile(c) ==
    [by |-> "save_async", sess |-> c.sess, upto |-> c.upto, content |-> Snapshot(c.log)]

\* "When the asynchronous save operation is complete, a byte is written to
\* the file descriptor": the bytes written for context c once its save ends.
BytesAtCompletion_none(c) == c.bytes
BytesAtCompletion(c) == c.bytes + 1

\* The descriptor of context c selects for read on account of its latest
\* save: the byte of that save has been written.
Readable(c) == c.started > 0 /\ c.bytes = c.started

\* The background worker finishes the save with result r and writes one
\* byte to the context's descriptor.
SaveWorkerComplete_polled(s, r) ==
    /\ call.op \in {"poll_complete", "poll_progress"}
    /\ call.arg = <<s, ctxs[s].gen>>
    /\ ctxs[s].used
    /\ ctxs[s].save = "InProgress"
    /\ ctxs' = [ctxs EXCEPT ![s].save = "Complete", ![s].workers = @ - 1,
                            ![s].result = Written(r),
                            ![s].bytes = BytesAtCompletion(ctxs[s])]
    /\ files' = IF r = 0
                THEN [files EXCEPT ![ctxs[s].file[1]] = AsyncFile(ctxs[s])]
                ELSE files
    /\ UNCHANGED <<envVars, exited, tests, final, sessionVars, cfg, openFds, freed, call>>
SaveWorkerComplete(s, r) ==
    /\ ctxs[s].used
    /\ ctxs[s].save = "InProgress"
    /\ ctxs' = [ctxs EXCEPT ![s].save = "Complete", ![s].workers = @ - 1,
                            ![s].result = Written(r),
                            ![s].bytes = BytesAtCompletion(ctxs[s])]
    /\ files' = IF r = 0
                THEN [files EXCEPT ![ctxs[s].file[1]] = AsyncFile(ctxs[s])]
                ELSE files
    /\ UNCHANGED <<envVars, exited, tests, final, sessionVars, cfg, openFds, freed, call>>

(* ------------------------------ polling ------------------------------- *)

\* What undolr_poll_saving_complete() reports of a finished save.
CompleteOut_fresh(c) ==
    [NoOut EXCEPT !.complete = Written(1), !.result = Written(0)]
CompleteOut_progress(c) ==
    [NoOut EXCEPT !.complete = Written(1), !.result = Written(c.result[1]),
                  !.progress = Written(100)]
CompleteOut(c) ==
    [NoOut EXCEPT !.complete = Written(1), !.result = Written(c.result[1])]

undolr_poll_saving_complete(h) ==
    /\ UNCHANGED <<envVars, exited, tests, final, sessionVars, cfg, storeVars>>
    /\ IF ~ValidHandle(h)
       THEN call' = Fail("poll_complete", h, "InvalidHandle")
       ELSE IF ctxs[h[1]].save = "Pending"
       THEN call' = Fail("poll_complete", h, "InvalidArgument")
       ELSE IF ctxs[h[1]].save = "InProgress"
       THEN call' = [Ok("poll_complete", h) EXCEPT !.out.complete = Written(0)]
       ELSE call' = [Ok("poll_complete", h) EXCEPT !.out = CompleteOut(ctxs[h[1]])]

undolr_poll_saving_progress(h, avail) ==
    /\ UNCHANGED <<envVars, exited, tests, final, sessionVars, cfg, storeVars>>
    /\ IF ~ValidHandle(h)
       THEN call' = Fail("poll_progress", h, "InvalidHandle")
       ELSE IF ctxs[h[1]].save = "Pending"
       THEN call' = Fail("poll_progress", h, "InvalidArgument")
       ELSE IF ctxs[h[1]].save = "InProgress"
       THEN call' = [Ok("poll_progress", h) EXCEPT
                        !.out.complete = Written(0),
                        !.out.progress =
                            Written(IF avail THEN ctxs[h[1]].progress ELSE 0 - 1)]
       ELSE call' = [Ok("poll_progress", h) EXCEPT !.out = CompleteOut(ctxs[h[1]])]

(* --------------------- undolr_get_select_descriptor ------------------- *)

\* The lowest descriptor number that is not open.
LowestFreeFd == CHOOSE n \in FdNumbers \ openFds : \A m \in FdNumbers \ openFds : n <= m

undolr_get_select_descriptor(h) ==
    IF ~ValidHandle(h)
    THEN /\ call' = Fail("get_fd", h, "InvalidHandle")
         /\ UNCHANGED <<envVars, exited, tests, final, sessionVars, cfg, storeVars>>
    ELSE IF ctxs[h[1]].fd # NotWritten
    THEN /\ call' = [Ok("get_fd", h) EXCEPT !.out.fd = ctxs[h[1]].fd]
         /\ UNCHANGED <<envVars, exited, tests, final, sessionVars, cfg, storeVars>>
    ELSE /\ ctxs' = [ctxs EXCEPT ![h[1]].fd = Written(LowestFreeFd)]
         /\ openFds' = openFds \cup {LowestFreeFd}
         /\ call' = [Ok("get_fd", h) EXCEPT !.out.fd = Written(LowestFreeFd)]
         /\ UNCHANGED <<envVars, exited, tests, final, sessionVars, cfg, files, freed>>

(* --------------------------- undolr_discard --------------------------- *)

\* A context "must not be passed to undolr_discard() ... until the save has
\* completed".
DiscardBlocked_never(c) == FALSE
DiscardBlocked(c) == AsyncBusy(c)

\* The descriptors of the process left open once context c is discarded.
FdsAfterDiscard_leak(c) == openFds
FdsAfterDiscard(c) == openFds \ {c.fd[i] : i \in 1..Len(c.fd)}

undolr_discard(h) ==
    IF ~ValidHandle(h)
    THEN /\ call' = Fail("discard", h, "InvalidHandle")
         /\ UNCHANGED <<envVars, exited, tests, final, sessionVars, cfg, storeVars>>
    ELSE IF DiscardBlocked(ctxs[h[1]])
    THEN /\ call' = Fail("discard", h, "AlreadyInProgress")
         /\ UNCHANGED <<envVars, exited, tests, final, sessionVars, cfg, storeVars>>
    ELSE /\ ctxs' = [ctxs EXCEPT ![h[1]] = FreeCtx(ctxs[h[1]].gen + 1)]
         /\ openFds' = FdsAfterDiscard(ctxs[h[1]])
         /\ freed' = freed + 1
         /\ call' = Ok("discard", h)
         /\ UNCHANGED <<envVars, exited, tests, final, sessionVars, cfg, files>>

(* ---------------------- shared memory access log --------------------- *)

\* "all accesses to shared memory get logged to that file, which can be
\* written by multiple processes at the same time": the processes that share
\* the maps inherit the configured log, record themselves, and log each
\* access they make while recording.

\* Accesses logged so far, by all processes.
LoggedCount ==
    Cardinality({x \in Peers \X (1..MaxShmemEntries) : x[2] <= Len(peers[x[1]].logged)})

\* "the old log is not discarded for the new run": the log file as a
\* process that starts recording finds and leaves it.
ShmemLogAtStart(log) == log

\* Process p starts recording itself, logging to the configured file.
PeerStart(p) ==
    /\ ~peers[p].recording
    /\ peers[p].runs < MaxStarts
    /\ peers' = [peers EXCEPT ![p].recording = TRUE, ![p].log = cfg.shmemFile,
                              ![p].runs = @ + 1]
    /\ shmemLogs' = [n \in ShmemLogPaths |->
                        IF cfg.shmemFile = Written(n)
                        THEN ShmemLogAtStart(shmemLogs[n])
                        ELSE shmemLogs[n]]
    /\ UNCHANGED <<threadVars, logPolicy, exited, tests, final, sessionVars, cfg,
                   storeVars, call>>

\* Process p stops recording itself.
PeerStop(p) ==
    /\ peers[p].recording
    /\ peers' = [peers EXCEPT ![p].recording = FALSE]
    /\ UNCHANGED <<threadVars, shmemLogs, logPolicy, exited, tests, final, sessionVars,
                   cfg, storeVars, call>>

\* The log file once a process has written entry e to it: the file takes
\* appends from several writers, each after what is already there.
ShmemAppend_private(log, e) == Append(SelectSeq(log, LAMBDA x : x.proc = e.proc), e)
ShmemAppend(log, e) == Append(log, e)

\* Process p, recording, accesses the shared memory: its n-th logged access
\* goes to the log file it records with.
PeerAccess(p) ==
    /\ peers[p].recording
    /\ peers[p].log # NotWritten
    /\ LoggedCount < MaxShmemEntries
    /\ LET path == peers[p].log[1]
           n == Len(peers[p].logged) + 1
       IN  /\ shmemLogs' = [shmemLogs EXCEPT
                                ![path] = ShmemAppend(@, [proc |-> p, n |-> n])]
           /\ peers' = [peers EXCEPT
                            ![p].logged = Append(@, [path |-> path, n |-> n])]
    /\ UNCHANGED <<threadVars, logPolicy, exited, tests, final, sessionVars, cfg,
                   storeVars, call>>

(* ------------------------- calls from threads ------------------------- *)

\* "Calling undolr_*() functions concurrently from different threads is not
\* supported, and will give undefined behaviour."  A call takes time: the
\* thread enters it, and the function checks what it requires; the thread
\* returns from it, and the function has acted.  Nothing orders the calls
\* of two threads.

\* The session-control functions the threads call.
ThreadOps == {"start", "stop", "save_async", "discard"}

\* What the function's check of its requirements finds in the current
\* state: the error it refuses the call with, or "none".
Refusal_unchecked(op, arg) == "none"
Refusal(op, arg) ==
    CASE op = "start" -> IF StartRejected THEN "AlreadyRecording" ELSE "none"
      [] op = "stop" -> IF ~active THEN "NotRecording" ELSE "none"
      [] op = "save_async" ->
            IF ~ValidHandle(arg) THEN "InvalidHandle"
            ELSE IF AsyncBusy(ctxs[arg[1]]) THEN "AlreadyInProgress"
            ELSE "none"
      [] op = "discard" ->
            IF ~ValidHandle(arg) THEN "InvalidHandle"
            ELSE IF DiscardBlocked(ctxs[arg[1]]) THEN "AlreadyInProgress"
            ELSE "none"

\* Some other thread is in a call.
OtherInCall(t) == \E u \in Threads \ {t} : threads[u].pc = "called"

\* Thread t enters a call of op with argument arg.  Once calls have
\* overlapped the behaviour is undefined: the calls in flight are followed to
\* their return, and no further call is.
ThreadEnter(t, op, arg) ==
    /\ threads[t].pc = "idle"
    /\ ~raced
    /\ threads' = [threads EXCEPT ![t] =
                      [pc |-> "called", op |-> op, arg |-> arg,
                       refusal |-> Refusal(op, arg)]]
    /\ raced' = (raced \/ OtherInCall(t))
    /\ UNCHANGED <<shmemLogVars, logPolicy, exited, tests, final, sessionVars, cfg,
                   storeVars, call>>

\* What a call that is not refused does to the session and the contexts.
CallEffect(op, arg) ==
    CASE op = "start" ->
            /\ sess < MaxStarts
            /\ active' = TRUE
            /\ attached' = attached + 1
            /\ sess' = sess + 1
            /\ eventLog' = <<>>
            /\ logCap' = cfg.logSize
            /\ pos' = 0
            /\ history' = <<>>
            /\ termSave' = <<>>
            /\ call' = Ok("start", <<>>)
            /\ UNCHANGED <<appends, storeVars>>
      [] op = "stop" ->
            /\ \E s \in FreeSlots :
                  /\ s = CHOOSE u \in FreeSlots : \A v \in FreeSlots : u <= v
                  /\ StopRetain(s)
            /\ active' = FALSE
            /\ attached' = attached - 1
            /\ eventLog' = <<>>
            /\ termSave' = TermSaveAfterStop
            /\ UNCHANGED <<sess, logCap, pos, history, appends, files, openFds>>
      [] op = "save_async" ->
            /\ ctxs' = [ctxs EXCEPT ![arg[1]] = SaveStarted(ctxs[arg[1]], "run1.rec")]
            /\ call' = Ok("save_async", arg)
            /\ UNCHANGED <<sessionVars, files, openFds, freed>>
      [] op = "discard" ->
            /\ ctxs' = [ctxs EXCEPT ![arg[1]] = FreeCtx(ctxs[arg[1]].gen + 1)]
            /\ openFds' = FdsAfterDiscard(ctxs[arg[1]])
            /\ freed' = freed + 1
            /\ call' = Ok("discard", arg)
            /\ UNCHANGED <<sessionVars, files>>

\* Thread t returns from its call.  The function acts on what its check
\* found when the call was entered or on what it finds now: once calls have
\* overlapped the two can differ, and either may be what happens.
ThreadReturn(t) ==
    /\ threads[t].pc = "called"
    /\ \E r \in {threads[t].refusal, Refusal(threads[t].op, threads[t].arg)} :
          IF r # "none"
          THEN /\ call' = Fail(threads[t].op, threads[t].arg, r)
               /\ UNCHANGED <<sessionVars, storeVars>>
          ELSE CallEffect(threads[t].op, threads[t].arg)
    /\ threads' = [threads EXCEPT ![t] = NotInCall]
    /\ UNCHANGED <<raced, shmemLogVars, logPolicy, exited, tests, final, cfg>>

(* ------------------------------ Next ---------------------------------- *)

\* Processes that share memory maps, logging their accesses to one file.
ShmemLogNext ==
    \/ \E f \in {<<>>, <<PathAShmem>>} : undolr_shmem_log_filename_set(f)
    \/ \E p \in Peers : PeerStart(p)
    \/ \E p \in Peers : PeerStop(p)
    \/ \E p \in Peers : PeerAccess(p)

\* Threads of one process calling the session-control functions.
ThreadsNext ==
    \/ \E t \in Threads : ThreadEnter(t, "start", <<>>)
    \/ \E t \in Threads : ThreadEnter(t, "stop", TRUE)
    \/ \E t \in Threads, h \in HeldHandles : ThreadEnter(t, "save_async", h)
    \/ \E t \in Threads, h \in HeldHandles : ThreadEnter(t, "discard", h)
    \/ \E t \in Threads : ThreadReturn(t)

\* The session's life cycle: start, stop, and what is recorded in between.
LifecycleCalls ==
    \/ \E a \in AttachOutcomes : undolr_start(a)
    \/ \E r \in BOOLEAN : undolr_stop(r)
    \/ RecordEvent
    \/ \E h \in HeldHandles : undolr_discard(h)
    \/ \E f \in {"run1.rec"} : undolr_save_on_termination(f)
    \/ undolr_save_on_termination_cancel
    \/ \E f \in {<<>>, <<PathAShmem>>, <<PathATxt>>} : undolr_shmem_log_filename_set(f)

LifecycleNext ==
    \/ ~exited /\ LifecycleCalls
    \/ ProcessExit

\* Saving the live session.
SavingNext ==
    \/ \E a \in {undolr_error_NONE, undolr_error_CANNOT_ATTACH} : undolr_start(a)
    \/ \E r \in {FALSE} : undolr_stop(r)
    \/ \E f \in Filenames, io \in {"ok", "fail"} : undolr_save(f, io)
    \/ RecordEvent
    \/ \E n \in AnnotationNames, d \in AnnotationDetails, v \in IntValues :
          undoex_annotation_add_int(n, d, v)

\* Retained recording contexts: asynchronous save, polling, discard.
AsyncNext ==
    \/ \E a \in {undolr_error_NONE} : undolr_start(a)
    \/ \E r \in {TRUE} : undolr_stop(r)
    \/ \E h \in HeldHandles, f \in {"run1.rec"}, io \in {"ok", "fail"} :
          undolr_save_async(h, f, io)
    \/ \E s \in Slots, p \in ProgressValues : SaveWorkerProgress(s, p)
    \/ \E s \in Slots, r \in SaveResults : SaveWorkerComplete(s, r)
    \/ \E h \in HeldHandles : undolr_poll_saving_complete(h)
    \/ \E h \in HeldHandles, avail \in BOOLEAN : undolr_poll_saving_progress(h, avail)
    \/ \E h \in HeldHandles : undolr_get_select_descriptor(h)
    \/ \E h \in HeldHandles : undolr_discard(h)

\* The raw annotation channel of a session that is saved.
AnnotationsNext ==
    \/ \E a \in {undolr_error_NONE} : undolr_start(a)
    \/ \E r \in {FALSE} : undolr_stop(r)
    \/ \E f \in {"run1.rec"}, io \in {"ok"} : undolr_save(f, io)
    \/ RecordEvent
    \/ \E n \in AnnotationNames, d \in AnnotationDetails, b \in RawBuffers :
          undoex_annotation_add_raw_data(n, d, b, 2)
    \/ \E n \in AnnotationNames, d \in AnnotationDetails, s \in {<<"{}">>} :
          undoex_annotation_add_text(n, d, undoex_annotation_content_type_JSON, s)
    \/ \E n \in AnnotationNames, d \in AnnotationDetails, v \in IntValues :
          undoex_annotation_add_int(n, d, v)

\* Test annotation objects around sessions.
TestsNext ==
    \/ \E a \in {undolr_error_NONE} : undolr_start(a)
    \/ \E r \in {FALSE} : undolr_stop(r)
    \/ \E b \in TestBaseNames, x \in BOOLEAN : undoex_test_annotation_new(b, x)
    \/ \E t \in LiveTests : undoex_test_annotation_free(t)
    \/ \E t \in LiveTests : undoex_test_annotation_start(t)
    \/ \E t \in LiveTests : undoex_test_annotation_end(t)
    \/ \E t \in LiveTests, r \in {undoex_test_result_FAILURE} :
          undoex_test_annotation_set_result(t, r)
    \/ \E t \in LiveTests :
          undoex_test_annotation_set_output(
              t, undoex_annotation_content_type_UNSTRUCTURED_TEXT, "ok")
    \/ \E t \in LiveTests, d \in AnnotationDetails :
          undoex_test_annotation_add_raw_data(t, d, <<>>, 0)
    \/ \E t \in LiveTests, d \in AnnotationDetails :
          undoex_test_annotation_add_text(
              t, d, undoex_annotation_content_type_XML, <<"{}">>)
    \/ \E t \in LiveTests, d \in AnnotationDetails, v \in {5} :
          undoex_test_annotation_add_int(t, d, v)

\* The deprecated calls next to the ones they stand for.
DeprecatedNext ==
    \/ \E a \in {undolr_error_NONE, undolr_error_CANNOT_ATTACH} : undolr_start(a)
    \/ \E a \in {undolr_error_NONE, undolr_error_CANNOT_ATTACH} : undolr_recording_start(a)
    \/ \E r \in {FALSE} : undolr_stop(r)
    \/ RecordEvent
    \/ \E f \in {"run1.rec"} : undolr_recording_stop_and_save(f)
    \/ \E r \in SaveResults : FinalSaveComplete(r)

\* Sizing the event log around and within sessions.
EventLogNext ==
    \/ \E a \in {undolr_error_NONE} : undolr_start(a)
    \/ \E r \in {FALSE} : undolr_stop(r)
    \/ RecordEvent
    \/ \E z \in EventLogSizes : undolr_event_log_size_set(z)
    \/ undolr_event_log_size_get

\* Configuring the shared memory log around sessions.
ConfigNext ==
    \/ \E a \in {undolr_error_NONE} : undolr_start(a)
    \/ \E r \in {FALSE} : undolr_stop(r)
    \/ \E f \in {<<>>} \cup {<<n>> : n \in ShmemNames} : undolr_shmem_log_filename_set(f)
    \/ undolr_shmem_log_filename_get
    \/ \E z \in ShmemSizes : undolr_shmem_log_size_set(z)
    \/ undolr_shmem_log_size_get

Calls ==
    \/ \E a \in AttachOutcomes : undolr_start(a)
    \/ \E r \in BOOLEAN : undolr_stop(r)
    \/ \E f \in Filenames, io \in {"ok", "fail"} : undolr_save(f, io)
    \/ RecordEvent
    \/ \E n \in AnnotationNames, d \in AnnotationDetails, v \in IntValues :
          undoex_annotation_add_int(n, d, v)
    \/ \E h \in HeldHandles, f \in Filenames, io \in {"ok", "fail"} :
          undolr_save_async(h, f, io)
    \/ \E s \in Slots, p \in ProgressValues : SaveWorkerProgress(s, p)
    \/ \E s \in Slots, r \in SaveResults : SaveWorkerComplete(s, r)
    \/ \E h \in HeldHandles : undolr_poll_saving_complete(h)
    \/ \E h \in HeldHandles, avail \in BOOLEAN : undolr_poll_saving_progress(h, avail)
    \/ \E h \in HeldHandles : undolr_get_select_descriptor(h)
    \/ \E h \in HeldHandles : undolr_discard(h)
    \/ \E f \in Filenames : undolr_save_on_termination(f)
    \/ undolr_save_on_termination_cancel
    \/ \E f \in {<<>>} \cup {<<n>> : n \in ShmemNames} : undolr_shmem_log_filename_set(f)
    \/ undolr_shmem_log_filename_get
    \/ \E z \in ShmemSizes : undolr_shmem_log_size_set(z)
    \/ undolr_shmem_log_size_get
    \/ \E z \in EventLogSizes : undolr_event_log_size_set(z)
    \/ undolr_event_log_size_get
    \/ \E n \in AnnotationNames, d \in AnnotationDetails, b \in RawBuffers :
          undoex_annotation_add_raw_data(n, d, b, 2)
    \/ \E n \in AnnotationNames, d \in AnnotationDetails, c \in ContentTypes, s \in Texts :
          undoex_annotation_add_text(n, d, c, s)
    \/ \E b \in TestBaseNames, x \in BOOLEAN : undoex_test_annotation_new(b, x)
    \/ \E t \in LiveTests : undoex_test_annotation_free(t)
    \/ \E t \in LiveTests : undoex_test_annotation_start(t)
    \/ \E t \in LiveTests : undoex_test_annotation_end(t)
    \/ \E t \in LiveTests, r \in TestResults : undoex_test_annotation_set_result(t, r)
    \/ \E t \in LiveTests, c \in ContentTypes :
          undoex_test_annotation_set_output(t, c, "ok")
    \/ \E t \in LiveTests, d \in AnnotationDetails, b \in RawBuffers :
          undoex_test_annotation_add_raw_data(t, d, b, 2)
    \/ \E t \in LiveTests, d \in AnnotationDetails, c \in ContentTypes, s \in Texts :
          undoex_test_annotation_add_text(t, d, c, s)
    \/ \E t \in LiveTests, d \in AnnotationDetails, v \in IntValues :
          undoex_test_annotation_add_int(t, d, v)
    \/ \E a \in AttachOutcomes : undolr_recording_start(a)
    \/ \E f \in Filenames : undolr_recording_stop_and_save(f)
    \/ \E r \in SaveResults : FinalSaveComplete(r)

Next ==
    \/ ~exited /\ Calls
    \/ ProcessExit
    \/ ThreadsNext
    \/ \E p \in Peers : PeerStart(p)
    \/ \E p \in Peers : PeerStop(p)
    \/ \E p \in Peers : PeerAccess(p)

Spec == Init /\ [][Next]_vars
SpecLifecycle == Init /\ [][LifecycleNext]_vars
SpecSaving == Init /\ [][SavingNext]_vars
SpecAsync == Init /\ [][AsyncNext]_vars

\* The save worker is a thread of its own that the scheduler keeps running:
\* a save it can finish, it does finish.  No call of the API is required.
WorkerFairness == \A s \in Slots : WF_vars(\E r \in SaveResults : SaveWorkerComplete(s, r))
SpecAsyncFair == Init /\ [][AsyncNext]_vars /\ WorkerFairness
SpecConfig == Init /\ [][ConfigNext]_vars
SpecEventLog == Init /\ [][EventLogNext]_vars
SpecThreads == Init /\ [][ThreadsNext]_vars
SpecShmemLog == Init /\ [][ShmemLogNext]_vars
SpecAnnotations == Init /\ [][AnnotationsNext]_vars
SpecTests == Init /\ [][TestsNext]_vars
SpecDeprecated == Init /\ [][DeprecatedNext]_vars

(* ------------------------------ claims -------------------------------- *)

\* C1: in every state with an active session a call to undolr_start() fails
\* (-1, AlreadyRecording) and leaves the whole session state (active flag,
\* event log, shmem log configuration, save-on-termination registration)
\* as it was; at most one session is ever active in the process.
C1_StartWhileRecordingFails ==
    /\ [](attached <= 1 /\ (active <=> attached = 1))
    /\ [][\A a \in AttachOutcomes :
            (active /\ undolr_start(a)) =>
                /\ call'.op = "start"
                /\ call'.ret = RetFail
                /\ call'.err = "AlreadyRecording"
                /\ UNCHANGED <<active, attached, sess, eventLog, logCap, pos,
                               history, appends, cfg, termSave, storeVars>>]_vars

\* A start refused in a session that has recorded events, a registered
\* save on termination and a shmem log configured.
C1_Witness ==
    /\ active
    /\ call.op = "start"
    /\ call.err = "AlreadyRecording"
    /\ eventLog # <<>>
    /\ termSave # <<>>
    /\ cfg.shmemFile # <<>>

\* Recording contexts in use.
UsedSlots == {s \in Slots : ctxs[s].used}

\* C2: undolr_stop() on an active session does exactly one of two things:
\* with a context location it hands out exactly one new context that holds
\* the captured log, with NULL it discards the log and creates no context;
\* either way the session is no longer active.  Every recorded history is
\* in exactly one place: the live session, one context, or released.
C2_StopRetainsOrDiscards ==
    /\ [](freed + attached + Cardinality(UsedSlots) = sess)
    /\ [][\A r \in BOOLEAN :
            (active /\ undolr_stop(r)) =>
                /\ call'.ret = RetOk
                /\ ~active'
                /\ IF r
                   THEN /\ freed' = freed
                        /\ \E s \in Slots :
                              /\ ~ctxs[s].used
                              /\ ctxs'[s].used
                              /\ ctxs'[s].log = eventLog
                              /\ call'.out.ctx = Written(<<s, ctxs'[s].gen>>)
                              /\ \A u \in Slots \ {s} : ctxs'[u] = ctxs[u]
                   ELSE /\ freed' = freed + 1
                        /\ ctxs' = ctxs
                        /\ call'.out.ctx = NotWritten]_vars

\* A stop that retained a log with recorded events, in a process in which
\* an earlier stop discarded its log at once.
C2_Witness ==
    /\ call.op = "stop"
    /\ call.ret = RetOk
    /\ call.arg = TRUE
    /\ freed = 1
    /\ \E s \in Slots : ctxs[s].used /\ ctxs[s].gen = 0 /\ ctxs[s].log # <<>>

\* C6: when undolr_start() fails because attaching failed (any of the six
\* reasons), no partial session exists: the session is not active, nothing
\* is attached and no event log was allocated, the configuration and the
\* retained contexts are unchanged, and a later start is not refused.
C6_FailedAttachLeavesNoSession ==
    [][\A a \in AttachErrors :
            (~active /\ undolr_start(a)) =>
                /\ call'.ret = RetFail
                /\ call'.out.error = Written(a)
                /\ ~active'
                /\ attached' = 0
                /\ ~StartRejected'
                /\ UNCHANGED <<sess, eventLog, logCap, pos, history, appends,
                               cfg, termSave, storeVars>>]_vars

\* A start that failed on protection keys in a process that holds a
\* retained context and has a shmem log configured.
C6_Witness ==
    /\ call.op = "start"
    /\ call.ret = RetFail
    /\ call.out.error = Written(undolr_error_PKEYS_IN_USE)
    /\ UsedSlots # {}
    /\ cfg.shmemFile # <<>>

\* C7: undolr_save() succeeds only while a session is active, that is after
\* a successful undolr_start() with no undolr_stop() since; before any start
\* and after stop it fails with NotRecording and writes no recording file.
C7_SaveOnlyWhileRecording ==
    /\ [][\A f \in Filenames, io \in {"ok", "fail"} :
            undolr_save(f, io) =>
                /\ call'.ret = RetOk => active
                /\ ~active => /\ call'.ret = RetFail
                              /\ call'.err = "NotRecording"
                              /\ files' = files]_vars
    /\ [][/\ (~active /\ active') => (call'.op = "start" /\ call'.ret = RetOk)
          /\ (active /\ ~active') => (call'.op = "stop" /\ call'.ret = RetOk)]_vars

\* A save refused after the session that wrote a recording was stopped.
C7_Witness ==
    /\ ~active
    /\ sess >= 1
    /\ call.op = "save"
    /\ call.err = "NotRecording"
    /\ \E f \in Filenames : files[f].by = "save" /\ files[f].sess = sess

\* C9: a successful undolr_save() does not stop or alter the recording: the
\* session is still active, the event log holds the same entries as before,
\* and annotations and further saves are accepted as before.
C9_SaveLeavesRecordingAlone ==
    [][\A f \in Filenames, io \in {"ok", "fail"} :
            (undolr_save(f, io) /\ call'.ret = RetOk) =>
                /\ active'
                /\ SaveAllowed'
                /\ eventLog' = eventLog
                /\ Accepts(logPolicy, eventLog, logCap)' = Accepts(logPolicy, eventLog, logCap)
                /\ UNCHANGED <<attached, sess, logCap, pos, history, appends,
                               termSave, cfg, ctxs, openFds, freed>>]_vars

\* A save of a session that holds entries, followed by an accepted
\* annotation: the log has grown past the recording.
C9_Witness ==
    /\ active
    /\ call.op = "add_int"
    /\ call.ret = RetOk
    /\ \E f \in Filenames :
          /\ files[f].by = "save"
          /\ files[f].sess = sess
          /\ files[f].content # <<>>
          /\ files[f].upto < pos

\* Recording files written by undolr_save() in the session history belongs to.
SessionSaves == {f \in Filenames : files[f].by = "save" /\ files[f].sess = sess}

\* The entries appended after log position p and up to log position q.
AppendedBetween(p, q) == SubSeq(history, p + 1, q)

\* s is the tail of t.
IsTail(s, t) ==
    /\ Len(s) <= Len(t)
    /\ s = SubSeq(t, Len(t) - Len(s) + 1, Len(t))

\* C8 as stated: of two successful undolr_save() calls in one session, the
\* later recording holds every entry of the earlier one, in the same order,
\* followed by exactly the entries appended between the two calls; each
\* recording is the whole log prefix up to its save point.
C8_LaterSaveExtendsEarlier ==
    \A f1, f2 \in SessionSaves :
        (f1 # f2 /\ files[f1].upto <= files[f2].upto) =>
            /\ files[f2].content =
                  files[f1].content \o AppendedBetween(files[f1].upto, files[f2].upto)
            /\ files[f1].content = SubSeq(history, 1, files[f1].upto)
            /\ files[f2].content = SubSeq(history, 1, files[f2].upto)

\* C8 as amended: the later recording is the tail of the earlier recording
\* followed by the entries appended between the two calls, in the same
\* order, and it is all of them whenever they fit the capacity of the
\* session's event log; a full log has given up its oldest entries.
C8_LaterSaveIsTailOfExtension ==
    \A f1, f2 \in SessionSaves :
        files[f1].upto <= files[f2].upto =>
            LET whole == files[f1].content
                            \o AppendedBetween(files[f1].upto, files[f2].upto)
            IN  /\ IsTail(files[f2].content, whole)
                /\ Len(files[f2].content) <= logCap
                /\ Len(whole) <= logCap => files[f2].content = whole

\* Annotations 5 then 6 with a save after each: recordings [5] and [5, 6].
C8_Witness ==
    /\ "run1.rec" \in SessionSaves
    /\ "run2.rec" \in SessionSaves
    /\ Len(files["run1.rec"].content) = 1
    /\ files["run1.rec"].content[1].val = 5
    /\ Len(files["run2.rec"].content) = 2
    /\ files["run2.rec"].content[1].val = 5
    /\ files["run2.rec"].content[2].val = 6

\* The calls that take a recording context, made with handle h.
ContextCall(h) ==
    \/ undolr_poll_saving_complete(h)
    \/ \E avail \in BOOLEAN : undolr_poll_saving_progress(h, avail)
    \/ undolr_get_select_descriptor(h)
    \/ \E f \in Filenames, io \in {"ok", "fail"} : undolr_save_async(h, f, io)
    \/ undolr_discard(h)

\* C3: undolr_save_async() on a context whose asynchronous save has not
\* completed fails with AlreadyInProgress and leaves the first save (in
\* progress, its progress value, its target and result) as it was; at most
\* one save is ever in progress per recording context.
C3_SecondAsyncSaveRejected ==
    /\ [](\A s \in Slots :
            /\ ctxs[s].workers <= 1
            /\ ctxs[s].workers = 1 <=> (ctxs[s].used /\ ctxs[s].save = "InProgress"))
    /\ [][\A h \in Handles, f \in Filenames, io \in {"ok", "fail"} :
            (/\ ValidHandle(h)
             /\ ctxs[h[1]].save = "InProgress"
             /\ undolr_save_async(h, f, io)) =>
                /\ call'.ret = RetFail
                /\ call'.err = "AlreadyInProgress"
                /\ ctxs' = ctxs
                /\ files' = files]_vars

\* A second asynchronous save refused while the first is half way.
C3_Witness ==
    /\ call.op = "save_async"
    /\ call.err = "AlreadyInProgress"
    /\ \E s \in Slots :
          /\ ctxs[s].used
          /\ call.arg = <<s, ctxs[s].gen>>
          /\ ctxs[s].save = "InProgress"
          /\ ctxs[s].progress > 0

\* C4: undolr_discard() on a context whose asynchronous save is in progress
\* is rejected: the call fails, the context stays valid and its save goes
\* on; a save in progress leaves that state only by completing, and
\* discard succeeds only on a context with no save in progress.
C4_DiscardRejectedWhileSaving ==
    /\ [][\A h \in Handles :
            (/\ ValidHandle(h)
             /\ ctxs[h[1]].save = "InProgress"
             /\ undolr_discard(h)) =>
                /\ call'.ret = RetFail
                /\ call'.err = "AlreadyInProgress"
                /\ ValidHandle(h)'
                /\ UNCHANGED <<ctxs, files, openFds, freed>>]_vars
    /\ [][\A s \in Slots :
            (ctxs[s].used /\ ctxs[s].save = "InProgress") =>
                /\ ctxs'[s].used
                /\ ctxs'[s].gen = ctxs[s].gen
                /\ ctxs'[s].save \in {"InProgress", "Complete"}]_vars
    /\ [][\A h \in Handles :
            (ValidHandle(h) /\ undolr_discard(h) /\ call'.ret = RetOk) =>
                ctxs[h[1]].save \in {"Pending", "Complete"}]_vars

\* A discard refused on a context whose save is in progress.
C4_Witness ==
    /\ call.op = "discard"
    /\ call.err = "AlreadyInProgress"
    /\ \E s \in Slots :
          /\ ctxs[s].used
          /\ call.arg = <<s, ctxs[s].gen>>
          /\ ctxs[s].save = "InProgress"

\* C5: once a context has been passed to undolr_discard(), every later call
\* that takes it (both polls, get_select_descriptor, save_async, a second
\* discard) fails with InvalidHandle and changes nothing, and the context's
\* select descriptor is closed, all from the step in which discard succeeds.
C5_DiscardedContextIsInvalid ==
    /\ [][\A h \in Handles :
            (Stale(h) /\ ContextCall(h)) =>
                /\ call'.ret = RetFail
                /\ call'.err = "InvalidHandle"
                /\ call'.out = NoOut
                /\ UNCHANGED <<ctxs, files, openFds, freed>>]_vars
    /\ [][\A h \in Handles : Stale(h) => Stale(h)']_vars
    /\ [][\A h \in Handles :
            (ValidHandle(h) /\ undolr_discard(h) /\ call'.ret = RetOk) =>
                /\ Stale(h)'
                /\ ~ValidHandle(h)'
                /\ \A i \in 1..Len(ctxs[h[1]].fd) : ctxs[h[1]].fd[i] \notin openFds'
                /\ freed' = freed + 1]_vars

\* A call on a discarded context refused while its arena slot holds the
\* context of a later session.
C5_Witness ==
    /\ call.op \in {"poll_complete", "poll_progress", "get_fd", "save_async", "discard"}
    /\ call.err = "InvalidHandle"
    /\ ctxs[call.arg[1]].used
    /\ call.arg[2] < ctxs[call.arg[1]].gen

\* C10: once an asynchronous save is Complete, every call to
\* undolr_poll_saving_complete() on the context reports complete non-zero
\* and the recorded result; the save stays Complete with that result until
\* the context is discarded or a new undolr_save_async() is started.
C10_PollAfterCompleteIsStable ==
    /\ [][\A h \in Handles :
            (/\ ValidHandle(h)
             /\ ctxs[h[1]].save = "Complete"
             /\ undolr_poll_saving_complete(h)) =>
                /\ call'.ret = RetOk
                /\ call'.out.complete # NotWritten
                /\ call'.out.complete # Written(0)
                /\ call'.out.result = ctxs[h[1]].result
                /\ ctxs' = ctxs]_vars
    /\ [][\A s \in Slots :
            (ctxs[s].used /\ ctxs[s].save = "Complete") =>
                \/ /\ ctxs'[s].used
                   /\ ctxs'[s].gen = ctxs[s].gen
                   /\ ctxs'[s].save = "Complete"
                   /\ ctxs'[s].result = ctxs[s].result
                \/ /\ \E f \in Filenames, io \in {"ok", "fail"} :
                         undolr_save_async(<<s, ctxs[s].gen>>, f, io)
                   /\ call'.ret = RetOk
                \/ /\ undolr_discard(<<s, ctxs[s].gen>>)
                   /\ call'.ret = RetOk]_vars

\* A poll that reports a save finished with an error.
C10_Witness ==
    /\ call.op = "poll_complete"
    /\ call.ret = RetOk
    /\ call.out.complete = Written(1)
    /\ call.out.result = Written(5)
    /\ ctxs[call.arg[1]].save = "Complete"

\* C11: the descriptor of a recording context is not readable while the
\* context's asynchronous save is Pending or InProgress and is readable once
\* the save is Complete; a byte is written to it only in the step that takes
\* the save from InProgress to Complete, exactly one byte in that step, and
\* none after it for that save.
C11_DescriptorReadableOnceAtCompletion ==
    /\ [](\A s \in Slots :
            /\ ctxs[s].bytes <= ctxs[s].started
            /\ ctxs[s].used =>
                  (Readable(ctxs[s]) <=> ctxs[s].save = "Complete"))
    /\ [][\A s \in Slots :
            (ctxs[s].used /\ ctxs'[s].used /\ ctxs'[s].gen = ctxs[s].gen) =>
                /\ (ctxs[s].save = "InProgress" /\ ctxs'[s].save = "Complete")
                      <=> ctxs'[s].bytes = ctxs[s].bytes + 1
                /\ ctxs'[s].bytes \in {ctxs[s].bytes, ctxs[s].bytes + 1}]_vars

\* A descriptor handed out while the save was under way has become readable.
C11_Witness ==
    \E s \in Slots :
        /\ ctxs[s].used
        /\ ctxs[s].fd # NotWritten
        /\ ctxs[s].save = "Complete"
        /\ Readable(ctxs[s])
        /\ call.op = "poll_complete"
        /\ call.out.complete = Written(1)

\* A call of undolr_save_on_termination() with some filename.
SaveOnTerminationCall == \E f \in Filenames : undolr_save_on_termination(f)

\* C12: a save-on-termination registration exists only while a session is
\* active: undolr_save_on_termination() without a session fails with
\* NotRecording and registers nothing; undolr_stop() removes the
\* registration; undolr_save_on_termination_cancel() succeeds, removes it
\* and changes nothing else (nothing at all when none is registered); the
\* registration appears only by a successful undolr_save_on_termination()
\* and goes only by cancel or stop; at process exit a recording is written
\* exactly when, and where, a registration stands.
C12_TerminationSaveOnlyWhileRecording ==
    /\ [](termSave # <<>> => active)
    /\ [][(~active /\ SaveOnTerminationCall) =>
            /\ call'.ret = RetFail
            /\ call'.err = "NotRecording"
            /\ termSave' = <<>>
            /\ files' = files]_vars
    /\ [][(active /\ \E r \in BOOLEAN : undolr_stop(r)) => termSave' = <<>>]_vars
    /\ [][undolr_save_on_termination_cancel =>
            /\ call'.ret = RetOk
            /\ termSave' = <<>>
            /\ UNCHANGED <<active, attached, sess, eventLog, logCap, pos, history,
                           appends, cfg, storeVars>>]_vars
    /\ [][(termSave = <<>> /\ termSave' # <<>>) =>
            (active /\ SaveOnTerminationCall /\ call'.ret = RetOk)]_vars
    /\ [][(termSave # <<>> /\ termSave' = <<>>) =>
            \/ undolr_save_on_termination_cancel
            \/ \E r \in BOOLEAN : undolr_stop(r)]_vars
    /\ [][ProcessExit =>
            \A f \in Filenames :
                IF termSave = <<f>>
                THEN files'[f] = TerminationFile
                ELSE files'[f] = files[f]]_vars

\* After a session was stopped a registration was refused, and the process
\* has exited without writing a recording.
C12_Witness ==
    /\ exited
    /\ ~active
    /\ sess > 0
    /\ termSave = <<>>
    /\ call.op = "save_on_termination"
    /\ call.err = "NotRecording"
    /\ \A f \in Filenames : files[f].by # "termination"

\* The arguments of undolr_shmem_log_filename_set(): NULL or a path.
ShmemArgs == {<<>>} \cup {<<n>> : n \in ShmemNames}

ShmemConfig == <<cfg.shmemFile, cfg.shmemSize>>

\* C14: the shared memory log configuration does not change while a session
\* is active: a successful undolr_start() takes it as configured, no step of
\* an active session changes it, undolr_shmem_log_filename_get() and
\* undolr_shmem_log_size_get() return it, and undolr_shmem_log_filename_set()
\* and undolr_shmem_log_size_set() fail with InvalidArgument without
\* changing it.
C14_ShmemConfigFixedWhileRecording ==
    /\ [][(~active /\ active') => ShmemConfig' = ShmemConfig]_vars
    /\ [][active => ShmemConfig' = ShmemConfig]_vars
    /\ [][(active /\ undolr_shmem_log_filename_get) =>
            /\ call'.ret = RetOk
            /\ call'.out.filename = Written(cfg.shmemFile)]_vars
    /\ [][(active /\ undolr_shmem_log_size_get) =>
            /\ call'.ret = RetOk
            /\ call'.out.size = Written(cfg.shmemSize)]_vars
    /\ [][\A f \in ShmemArgs :
            (active /\ undolr_shmem_log_filename_set(f)) =>
                /\ call'.ret = RetFail
                /\ call'.err = "InvalidArgument"
                /\ cfg' = cfg]_vars
    /\ [][\A z \in ShmemSizes :
            (active /\ undolr_shmem_log_size_set(z)) =>
                /\ call'.ret = RetFail
                /\ call'.err = "InvalidArgument"
                /\ cfg' = cfg]_vars

\* In a session started with "a.shmem" and size 4096 configured, a request
\* for the default size was refused.
C14_Witness ==
    /\ active
    /\ cfg.shmemFile = <<PathAShmem>>
    /\ cfg.shmemSize = 4096
    /\ call.op = "shmem_log_size_set"
    /\ call.arg = 0
    /\ call.err = "InvalidArgument"

\* A call of one of the three raw-channel annotation functions.
RawChannelCall ==
    \E n \in AnnotationNames, d \in AnnotationDetails :
        \/ \E b \in RawBuffers, len \in 0..2 : undoex_annotation_add_raw_data(n, d, b, len)
        \/ \E c \in ContentTypes, s \in Texts : undoex_annotation_add_text(n, d, c, s)
        \/ \E v \in IntValues : undoex_annotation_add_int(n, d, v)

\* The entries of sequence s.
Entries(s) == {s[i] : i \in DOMAIN s}

\* C15: undoex_annotation_add_raw_data(), undoex_annotation_add_text() and
\* undoex_annotation_add_int() called while no session is active fail with
\* -1 and "not supported" (ENOTSUP) and append nothing; the log of a session
\* starts empty and holds, as every saved recording does, only entries
\* appended while that session was active.
C15_AnnotationsRefusedWhenNotRecording ==
    /\ [][(~active /\ RawChannelCall) =>
            /\ call'.ret = RetFail
            /\ call'.err = "NotSupported"
            /\ UNCHANGED <<active, eventLog, pos, history, appends, storeVars>>]_vars
    /\ [](~active => eventLog = <<>>)
    /\ [][(~active /\ active') => (eventLog' = <<>> /\ history' = <<>>)]_vars
    /\ [][(~active /\ ~active') => history' = history]_vars
    /\ [](Entries(eventLog) \subseteq Entries(history))
    /\ [](\A f \in Filenames :
            files[f].sess = sess => Entries(files[f].content) \subseteq Entries(history))
    /\ [][files' # files => active]_vars

\* After a session with one annotation was stopped, an annotation call was
\* refused.
C15_Witness ==
    /\ ~active
    /\ sess > 0
    /\ Len(history) = 1
    /\ history[1].kind = "raw"
    /\ call.op = "add_text"
    /\ call.ret = RetFail
    /\ call.err = "NotSupported"

\* An annotation call of the raw channel that succeeded.
AnnotationStored == active /\ RawChannelCall /\ call'.ret = RetOk

\* The entry a step has appended: the last one of the session's history.
Appended == history'[Len(history')]

\* The positions of the log's entries increase strictly.
PositionsIncrease ==
    \A i, j \in DOMAIN eventLog : i < j => eventLog[i].pos < eventLog[j].pos

\* C16 as stated: every successful annotation call adds exactly one entry at
\* the end of the event log, at a position greater than that of every
\* existing entry, and no existing entry is ever modified, reordered or
\* removed during the session.
C16_AnnotationsAppendOnly ==
    /\ [][AnnotationStored =>
            /\ history' = Append(history, Appended)
            /\ Appended.pos = pos + 1
            /\ \A i \in DOMAIN eventLog : eventLog[i].pos < Appended.pos
            /\ eventLog' = Append(eventLog, Appended)]_vars
    /\ [][(active /\ active') =>
            /\ Len(eventLog') >= Len(eventLog)
            /\ SubSeq(eventLog', 1, Len(eventLog)) = eventLog]_vars
    /\ []PositionsIncrease

\* C16 as amended: every successful annotation call adds exactly one entry
\* at the end of the event log, at a position greater than that of every
\* existing entry; no existing entry is ever modified or reordered, and none
\* is removed but the oldest, which a full log gives up to make room for the
\* new one; what was appended in the session never changes.
C16_AnnotationsAppendAtEnd ==
    /\ [][AnnotationStored =>
            /\ history' = Append(history, Appended)
            /\ Appended.pos = pos + 1
            /\ \A i \in DOMAIN eventLog : eventLog[i].pos < Appended.pos
            /\ eventLog'[Len(eventLog')] = Appended
            /\ IsTail(eventLog', Append(eventLog, Appended))
            /\ Len(eventLog) < logCap => eventLog' = Append(eventLog, Appended)
            /\ Len(eventLog') >= Len(eventLog)]_vars
    /\ [][(active /\ active') =>
            \/ eventLog' = eventLog /\ history' = history
            \/ /\ history' = Append(history, Appended)
               /\ IsTail(eventLog', Append(eventLog, Appended))
               /\ Len(eventLog') >= Len(eventLog)]_vars
    /\ []PositionsIncrease
    /\ [](Len(eventLog) <= logCap)

\* The log holds two annotations of the same name and detail with different
\* content, the earlier one first.
C16_Witness ==
    /\ active
    /\ Len(eventLog) = 2
    /\ eventLog[1].kind = "int" /\ eventLog[2].kind = "int"
    /\ eventLog[1].name = eventLog[2].name
    /\ eventLog[1].detail = eventLog[2].detail
    /\ eventLog[1].val = 5 /\ eventLog[2].val = 6
    /\ call.op = "add_int"
    /\ call.ret = RetOk

\* The step appends exactly entry e to what the session has recorded.
AppendsExactly(e) ==
    /\ history' = Append(history, e)
    /\ eventLog' = LogAppend(logPolicy, eventLog, logCap, e)
    /\ pos' = pos + 1

\* The entries of the session's history with detail d under name n.
Recorded(n, d) == {i \in DOMAIN history : history[i].name = n /\ history[i].detail = d}

\* C17: each test-annotation lifecycle call that succeeds while recording
\* appends exactly the one annotation the raw channel would append for the
\* test's name: detail "u-test-start" and no content for start(),
\* "u-test-end" and no content for end(), "u-test-result" and the result
\* for set_result(), "u-test-output" and the text for set_output(); an end
\* entry comes from end() alone, so a start() with no later end() leaves a
\* start entry without an end entry.
C17_TestCallsAreRawChannelCalls ==
    /\ [][\A t \in TestIds :
            (active /\ undoex_test_annotation_start(t) /\ call'.ret = RetOk) =>
                /\ AppendsExactly(RawAnnotation(tests.objs[t].name, "u-test-start", <<>>, 0))
                /\ Appended.kind = "none"]_vars
    /\ [][\A t \in TestIds :
            (active /\ undoex_test_annotation_end(t) /\ call'.ret = RetOk) =>
                /\ AppendsExactly(RawAnnotation(tests.objs[t].name, "u-test-end", <<>>, 0))
                /\ Appended.kind = "none"]_vars
    /\ [][\A t \in TestIds, r \in TestResults :
            (active /\ undoex_test_annotation_set_result(t, r) /\ call'.ret = RetOk) =>
                /\ AppendsExactly(IntEntry(pos + 1, tests.objs[t].name, "u-test-result", r))
                /\ Appended.val = r]_vars
    /\ [][\A t \in TestIds, c \in ContentTypes :
            (active /\ undoex_test_annotation_set_output(t, c, "ok") /\ call'.ret = RetOk) =>
                /\ AppendsExactly(
                       TextAnnotation(tests.objs[t].name, "u-test-output", c, <<"ok">>))
                /\ Appended.text = "ok"]_vars
    /\ [][(history' # history /\ history' # <<>> /\ Appended.detail = "u-test-end") =>
            \E t \in TestIds : undoex_test_annotation_end(t)]_vars
    /\ [][(\E t \in TestIds : undoex_test_annotation_free(t)) \/ (\E r \in BOOLEAN : undolr_stop(r))
            => history' = history]_vars

\* A session was stopped with a start entry of test "t-1" recorded and no
\* end entry for it.
C17_Witness ==
    /\ ~active
    /\ sess > 0
    /\ Recorded("t-1", "u-test-start") # {}
    /\ Recorded("t-1", "u-test-end") = {}
    /\ Recorded("t-1", "u-test-result") # {}
    /\ call.op = "stop"

\* A call on test annotation t that stores an annotation when recording.
TestAnnotationCall(t) ==
    \/ undoex_test_annotation_start(t)
    \/ undoex_test_annotation_end(t)
    \/ \E r \in TestResults : undoex_test_annotation_set_result(t, r)
    \/ \E c \in ContentTypes : undoex_test_annotation_set_output(t, c, "ok")
    \/ \E d \in AnnotationDetails :
          \/ \E b \in RawBuffers, len \in 0..2 :
                undoex_test_annotation_add_raw_data(t, d, b, len)
          \/ \E c \in ContentTypes, s \in Texts :
                undoex_test_annotation_add_text(t, d, c, s)
          \/ \E v \in IntValues : undoex_test_annotation_add_int(t, d, v)

\* C18: undoex_test_annotation_new() and undoex_test_annotation_free()
\* succeed whether or not a session is active and leave the recording
\* alone; start(), end(), set_result(), set_output() and add_*() on a valid
\* test annotation fail with -1 and ENOTSUP whenever no session is active,
\* append nothing and leave the test annotation object as it was.
C18_TestObjectsOutliveSessions ==
    /\ [][\A b \in TestBaseNames, x \in BOOLEAN :
            undoex_test_annotation_new(b, x) =>
                /\ call'.ret = RetOk
                /\ call'.out.test # NotWritten
                /\ tests'.objs[call'.out.test[1]].used
                /\ ~tests.objs[call'.out.test[1]].used
                /\ UNCHANGED <<active, eventLog, pos, history, appends, storeVars>>]_vars
    /\ [][\A t \in LiveTests :
            undoex_test_annotation_free(t) =>
                /\ call'.ret = RetOk
                /\ ~tests'.objs[t].used
                /\ UNCHANGED <<active, eventLog, pos, history, appends, storeVars>>]_vars
    /\ [][\A t \in LiveTests :
            (~active /\ TestAnnotationCall(t)) =>
                /\ call'.ret = RetFail
                /\ call'.err = "NotSupported"
                /\ tests' = tests
                /\ tests'.objs[t].used
                /\ UNCHANGED <<active, eventLog, pos, history, appends, storeVars>>]_vars

\* After a session in which the test was started, with the test annotation
\* still allocated, a call to set its output was refused.
C18_Witness ==
    /\ ~active
    /\ sess > 0
    /\ \E t \in LiveTests : tests.objs[t].started
    /\ call.op = "test_set_output"
    /\ call.ret = RetFail
    /\ call.err = "NotSupported"

\* What a start attempt with attach outcome a does in a state that is not
\* recording, whichever of the two functions makes it.
StartsLike(a) ==
    IF Detached \/ a # undolr_error_NONE
    THEN /\ call'.ret = RetFail
         /\ call'.err = "AttachFailure"
         /\ call'.out.error # NotWritten
         /\ ~Detached => call'.out.error = Written(a)
         /\ UNCHANGED <<sessionVars, cfg, storeVars, final>>
    ELSE /\ call'.ret = RetOk
         /\ call'.err = "none"
         /\ call'.out = NoOut
         /\ active'
         /\ sess' = sess + 1
         /\ attached' = attached + 1
         /\ eventLog' = <<>> /\ history' = <<>> /\ pos' = 0
         /\ logCap' = cfg.logSize
         /\ termSave' = <<>>
         /\ UNCHANGED <<appends, cfg, storeVars, final>>

\* C19: undolr_recording_start() returns what undolr_start() returns, with
\* the same error code and the same resulting session state, in every state
\* that is not recording; while recording undolr_recording_start() returns 0
\* and undolr_start() returns -1, and both leave the session state as it was.
C19_RecordingStartIsStart ==
    /\ [][\A a \in AttachOutcomes :
            (~active /\ undolr_start(a)) => StartsLike(a)]_vars
    /\ [][\A a \in AttachOutcomes :
            (~active /\ undolr_recording_start(a)) => StartsLike(a)]_vars
    /\ [][\A a \in AttachOutcomes :
            (active /\ undolr_start(a)) =>
                /\ call'.ret = RetFail
                /\ UNCHANGED <<sessionVars, cfg, storeVars, final>>]_vars
    /\ [][\A a \in AttachOutcomes :
            (active /\ undolr_recording_start(a)) =>
                /\ call'.ret = RetOk
                /\ UNCHANGED <<sessionVars, cfg, storeVars, final>>]_vars

\* While the second session of the process was recording,
\* undolr_recording_start() returned 0.
C19_Witness ==
    /\ active
    /\ sess = 2
    /\ pos > 0
    /\ call.op = "recording_start"
    /\ call.ret = RetOk

\* C20: after undolr_recording_stop_and_save(filename) succeeds the session
\* is stopped and an asynchronous save of its history to filename has been
\* started; from then on no session is ever active again: every
\* undolr_start() and undolr_recording_start() fails and starts nothing.
C20_StopAndSaveEndsRecording ==
    /\ [][\A f \in Filenames :
            (active /\ undolr_recording_stop_and_save(f)) =>
                /\ call'.ret = RetOk
                /\ ~active'
                /\ final'.save = "InProgress"
                /\ final'.file = Written(f)
                /\ final'.log = eventLog
                /\ Detached']_vars
    /\ [](Detached => ~active)
    /\ [][Detached => Detached']_vars
    /\ [][\A a \in AttachOutcomes :
            (Detached /\ (undolr_start(a) \/ undolr_recording_start(a))) =>
                /\ call'.ret = RetFail
                /\ ~active'
                /\ sess' = sess
                /\ attached' = attached]_vars
    /\ [][(final.save = "InProgress" /\ final'.save # "InProgress") =>
            /\ final'.save = "Complete"
            /\ final'.result = Written(0) =>
                  files'[final.file[1]].content = final.log]_vars

\* The save started by undolr_recording_stop_and_save() has written the
\* recorded event, and an undolr_start() made after it was refused.
C20_Witness ==
    /\ Detached
    /\ final.save = "Complete"
    /\ files["run1.rec"].by = "stop_and_save"
    /\ Len(files["run1.rec"].content) = 1
    /\ call.op = "start"
    /\ call.ret = RetFail
    /\ ~active

\* C21: recording can be started and stopped again and again in one process:
\* a successful undolr_stop() leaves the session inactive, and undolr_start()
\* on a process whose earlier session was stopped (and that attaches)
\* succeeds and begins the next session; undolr_stop() with no session
\* active fails with NotRecording and changes nothing.
C21_StartStopRepeatable ==
    /\ [][\A r \in BOOLEAN :
            (active /\ undolr_stop(r)) =>
                /\ call'.ret = RetOk
                /\ ~active'
                /\ sess' = sess]_vars
    /\ [][(/\ ~active
           /\ sess > 0
           /\ ~Detached
           /\ undolr_start(undolr_error_NONE)) =>
                /\ call'.ret = RetOk
                /\ active'
                /\ sess' = sess + 1
                /\ eventLog' = <<>>]_vars
    /\ [][\A r \in BOOLEAN :
            (~active /\ undolr_stop(r)) =>
                /\ call'.ret = RetFail
                /\ call'.err = "NotRecording"
                /\ call'.out = NoOut
                /\ UNCHANGED <<logPolicy, exited, tests, final, sessionVars, cfg,
                               storeVars>>]_vars

\* A second session running after the first was stopped, its history
\* retained in a context or released.
C21_Witness ==
    /\ sess = 2
    /\ active
    /\ call.op = "start"
    /\ call.ret = RetOk
    /\ freed + Cardinality({s \in Slots : ctxs[s].used}) >= 1

\* A poll of the save of the context handle h names, by either function; the
\* call recorded is the poll of h.
PollCall(h) ==
    /\ call'.op \in {"poll_complete", "poll_progress"}
    /\ call'.arg = h
    /\ \/ undolr_poll_saving_complete(h)
       \/ \E avail \in BOOLEAN : undolr_poll_saving_progress(h, avail)

\* Location loc was set, to a value of set S.
WrittenIn(loc, S) == Len(loc) = 1 /\ loc[1] \in S

\* The values *progress can be set to: a percentage, or -1 for unavailable.
ProgressReports == (0..100) \cup {0 - 1}

\* The locations a poll takes; the call writes no other.
PollLocations(out) == [out EXCEPT !.complete = NotWritten, !.progress = NotWritten,
                                  !.result = NotWritten] = NoOut

\* C22: a poll writes its output locations only as documented: while the
\* save is in progress it succeeds, sets *complete to 0, leaves *result
\* alone and (undolr_poll_saving_progress() only) sets *progress to a
\* percentage in 0..100 or to -1; once the save is complete it sets
\* *complete non-zero and *result to 0 or an error code and leaves *progress
\* alone; a poll that fails writes no location.
C22_PollWritesOnlyAsDocumented ==
    [][\A h \in Handles :
          PollCall(h) =>
            /\ (ValidHandle(h) /\ ctxs[h[1]].save = "InProgress") =>
                  /\ call'.ret = RetOk
                  /\ call'.out.complete = Written(0)
                  /\ call'.out.result = NotWritten
                  /\ IF call'.op = "poll_progress"
                     THEN WrittenIn(call'.out.progress, ProgressReports)
                     ELSE call'.out.progress = NotWritten
                  /\ PollLocations(call'.out)
            /\ (ValidHandle(h) /\ ctxs[h[1]].save = "Complete") =>
                  /\ call'.ret = RetOk
                  /\ call'.out.complete # NotWritten
                  /\ call'.out.complete # Written(0)
                  /\ WrittenIn(call'.out.result, SaveResults)
                  /\ call'.out.progress = NotWritten
                  /\ PollLocations(call'.out)
            /\ call'.ret # RetOk =>
                  /\ call'.ret = RetFail
                  /\ call'.out = NoOut]_vars

\* undolr_poll_saving_progress() on a save that has finished with an error:
\* the result is reported and *progress is not written.
C22_Witness ==
    /\ call.op = "poll_progress"
    /\ call.ret = RetOk
    /\ call.out.complete = Written(1)
    /\ call.out.result = Written(5)
    /\ call.out.progress = NotWritten
    /\ ValidHandle(call.arg)
    /\ ctxs[call.arg[1]].progress > 0

\* Context slot s holds a save that has been started and has not finished.
SaveInProgress(s) == ctxs[s].used /\ ctxs[s].save = "InProgress"

\* C23: with the save worker scheduled fairly, every asynchronous save that
\* undolr_save_async() has started reaches Complete with a result (0 or an
\* error code), whatever the caller does or does not do meanwhile; no step
\* takes a save in progress anywhere but to Complete: until then its context
\* stays valid and the save keeps its worker and its target.
C23_AsyncSaveCompletes ==
    /\ \A s \in Slots :
          SaveInProgress(s) ~>
              (/\ ctxs[s].used
               /\ ctxs[s].save = "Complete"
               /\ WrittenIn(ctxs[s].result, SaveResults))
    /\ [][\A s \in Slots :
            SaveInProgress(s) =>
                /\ ctxs'[s].used
                /\ ctxs'[s].gen = ctxs[s].gen
                /\ ctxs'[s].file = ctxs[s].file
                /\ \/ SaveInProgress(s)' /\ ctxs'[s].workers = 1
                   \/ /\ ctxs'[s].save = "Complete"
                      /\ \E r \in SaveResults : SaveWorkerComplete(s, r)]_vars

\* A save that finished while the caller's last call was still the
\* undolr_save_async() that started it.
C23_Witness ==
    /\ call.op = "save_async"
    /\ call.ret = RetOk
    /\ ctxs[call.arg[1]].used
    /\ ctxs[call.arg[1]].gen = call.arg[2]
    /\ ctxs[call.arg[1]].save = "Complete"
    /\ ctxs[call.arg[1]].result = Written(0)

\* A call of undolr_event_log_size_set() with some size.
EventLogSizeSetCall == \E z \in EventLogSizes : undolr_event_log_size_set(z)

\* C24: undolr_event_log_size_set() never changes the capacity or the
\* contents of the event log of a session that is active, and no other step
\* changes the capacity of a running session either; the configured size
\* changes only by a successful set, to the size given; a successful
\* undolr_start() allocates the log with the size configured at that
\* moment; undolr_event_log_size_get() returns the configured size and
\* changes nothing.
C24_LogSizeAppliesToNextSession ==
    /\ [][EventLogSizeSetCall =>
              /\ logCap' = logCap
              /\ eventLog' = eventLog
              /\ active' = active
              /\ sess' = sess]_vars
    /\ [][(active /\ active') => logCap' = logCap]_vars
    /\ [][\A z \in EventLogSizes :
            undolr_event_log_size_set(z) =>
                IF call'.ret = RetOk
                THEN z > 0 /\ cfg'.logSize = z
                ELSE cfg' = cfg]_vars
    /\ [][cfg'.logSize # cfg.logSize => (EventLogSizeSetCall /\ call'.ret = RetOk)]_vars
    /\ [][(~active /\ active') =>
              /\ logCap' = cfg.logSize
              /\ cfg' = cfg
              /\ eventLog' = <<>>]_vars
    /\ [][undolr_event_log_size_get =>
              /\ call'.ret = RetOk
              /\ call'.out.size = Written(cfg.logSize)
              /\ UNCHANGED <<cfg, sessionVars>>]_vars

\* A running session whose log holds more entries than the size configured
\* since it started, which undolr_event_log_size_get() has just returned.
C24_Witness ==
    /\ active
    /\ call.op = "event_log_size_get"
    /\ call.out.size = Written(cfg.logSize)
    /\ cfg.logSize < logCap
    /\ Len(eventLog) > cfg.logSize

\* The histories recorded so far are each in one place: the live session, a
\* context, or released.
HistoriesAccounted ==
    sess = Cardinality({s \in Slots : ctxs[s].used}) + freed + (IF active THEN 1 ELSE 0)

\* What every sequential order of the calls keeps: successful starts and
\* stops alternate (at most one session is active, attached once), every
\* context has at most one save in progress, and every history is stopped
\* and discarded at most once.
SequentialInvariants ==
    /\ attached \in {0, 1}
    /\ active <=> attached = 1
    /\ \A s \in Slots :
          /\ ctxs[s].workers <= 1
          /\ ctxs[s].workers = 1 <=> (ctxs[s].used /\ ctxs[s].save = "InProgress")
    /\ HistoriesAccounted

\* The call thread t returns from has the result and the effect of the same
\* call made on its own in the state it returns in.
AloneOutcome(t) ==
    LET op == threads[t].op
        arg == threads[t].arg
        r == Refusal(op, arg)
    IN  /\ call'.op = op
        /\ call'.err = r
        /\ call'.ret = (IF r = "none" THEN RetOk ELSE RetFail)
        /\ IF r # "none"
           THEN UNCHANGED <<sessionVars, cfg, storeVars>>
           ELSE CASE op = "start" ->
                       /\ active' /\ attached' = attached + 1 /\ sess' = sess + 1
                       /\ UNCHANGED storeVars
                  [] op = "stop" ->
                       /\ ~active' /\ attached' = attached - 1 /\ sess' = sess
                       /\ \E h \in Handles :
                             /\ call'.out.ctx = Written(h)
                             /\ ~ValidHandle(h)
                             /\ ValidHandle(h)'
                       /\ freed' = freed
                  [] op = "save_async" ->
                       /\ ctxs'[arg[1]].save = "InProgress"
                       /\ ctxs'[arg[1]].workers = 1
                       /\ UNCHANGED <<sessionVars, files, freed>>
                  [] op = "discard" ->
                       /\ ~ctxs'[arg[1]].used
                       /\ ctxs'[arg[1]].gen = arg[2] + 1
                       /\ freed' = freed + 1
                       /\ UNCHANGED sessionVars

EntriesOf(log, p) == SelectSeq(log, LAMBDA e : e.proc = p)

\* The accesses process p has logged to the file at path, in the order it
\* made them.
LoggedTo(p, path) == SelectSeq(peers[p].logged, LAMBDA x : x.path = path)

\* log is log2 or the beginning of it.
IsPrefix(log, log2) == Len(log) <= Len(log2) /\ SubSeq(log2, 1, Len(log)) = log

====
